---- MODULE Spec2Model ----
(***************************************************************************)
(* State-machine model of the Nextcloud file picker (src/main.js): the     *)
(* selection flow (_onSubmit with checkPublicLink, showConfirmationDialog, *)
(* createPublicLink and handleFileSelection), the listing flow (browse     *)
(* with _fetchNextcloudFiles, _parseWebDavResponse and                     *)
(* _convertToBrowseResults), the persisted settings and the part of the    *)
(* Nextcloud server these flows talk to.                                   *)
(*                                                                         *)
(* A JavaScript string is a sequence of tokens: a token is a separator     *)
(* ("/", "%", " ", "?") or a run of other characters ("cat.png"), so that  *)
(* split, substring, encodeURIComponent and decodeURIComponent are         *)
(* computed as the code computes them.                                     *)
(*                                                                         *)
(* One step of the model is one task of the browser's event loop: a        *)
(* handler runs from the event that starts it up to its next await of a    *)
(* network response or of the confirmation dialog.                         *)
(***************************************************************************)
EXTENDS Integers, Sequences, FiniteSets, TLC

\* ------------------------------------------------------------------ bounds
\* Number of user operations in one behaviour: clicks on a file, submits,
\* openings of a directory, clicks on the back button, reopenings of the picker.
MaxOps == 3

\* Number of entries, besides the listed directory itself, in a listing
\* answer that browse is called on directly.
MaxChildren == 2

\* ----------------------------------------------------------------- strings
EmptyStr == <<>>

RECURSIVE Split(_, _)
\* String.prototype.split(sep): the pieces between the occurrences of sep.
Split(s, sep) ==
    IF \E i \in 1..Len(s) : s[i] = sep
    THEN LET i == CHOOSE k \in 1..Len(s) : s[k] = sep /\ \A j \in 1..(k - 1) : s[j] # sep
         IN  <<SubSeq(s, 1, i - 1)>> \o Split(SubSeq(s, i + 1, Len(s)), sep)
    ELSE <<s>>

\* Array.prototype.pop() of a non-empty array: its last element.
Pop(parts) == parts[Len(parts)]

RECURSIVE Join(_, _)
\* Array.prototype.join(sep).
Join(parts, sep) ==
    IF parts = <<>> THEN <<>>
    ELSE IF Len(parts) = 1 THEN parts[1]
    ELSE parts[1] \o <<sep>> \o Join(Tail(parts), sep)

\* String.prototype.substring(from) with a 0-based start index.
Substring(s, from) ==
    IF from >= Len(s) THEN <<>> ELSE SubSeq(s, (IF from < 0 THEN 0 ELSE from) + 1, Len(s))

\* String.prototype.includes(needle).
Includes(s, needle) ==
    \E i \in 0..(Len(s) - Len(needle)) : SubSeq(s, i + 1, i + Len(needle)) = needle

\* x.replace(/\/$/, ''): drop one trailing slash.
StripTrailingSlash(s) ==
    IF Len(s) > 0 /\ s[Len(s)] = "/" THEN SubSeq(s, 1, Len(s) - 1) ELSE s

\* String.prototype.toLowerCase, token by token.
ToLowerToken(t) ==
    CASE t = "A" -> "a"
      [] t = "B" -> "b"
      [] t = "C" -> "c"
      [] t = ".PNG" -> ".png"
      [] OTHER -> t

ToLowerCase(s) == [i \in 1..Len(s) |-> ToLowerToken(s[i])]

\* String.prototype.endsWith(suffix).
EndsWith(s, suffix) ==
    Len(suffix) <= Len(s) /\ SubSeq(s, Len(s) - Len(suffix) + 1, Len(s)) = suffix

\* The tokens of file and directory names in collation order, case aside.
Alphabet == <<" ", "%", ".png", ".txt", "50", "a", "b", "c", "cat", "dir", "img", "my", "n">>

\* The collation keys of a name: the ranks of its tokens case aside, and
\* which of its tokens are not lower case.
PrimaryKey(s) == [i \in 1..Len(s) |-> CHOOSE r \in 1..Len(Alphabet) : Alphabet[r] = ToLowerToken(s[i])]
CaseKey(s) == [i \in 1..Len(s) |-> IF s[i] = ToLowerToken(s[i]) THEN 0 ELSE 1]

RECURSIVE LexLess(_, _)
\* Lexicographic order of two sequences of numbers.
LexLess(k1, k2) ==
    IF k2 = <<>> THEN FALSE
    ELSE IF k1 = <<>> THEN TRUE
    ELSE IF Head(k1) # Head(k2) THEN Head(k1) < Head(k2)
    ELSE LexLess(Tail(k1), Tail(k2))

\* String.prototype.localeCompare with the default options: the order of the
\* letters case aside, and lower case before upper case between names that
\* differ in case alone.
localeCompare(a, b) ==
    IF PrimaryKey(a) # PrimaryKey(b)
    THEN (IF LexLess(PrimaryKey(a), PrimaryKey(b)) THEN -1 ELSE 1)
    ELSE IF CaseKey(a) = CaseKey(b) THEN 0
    ELSE IF LexLess(CaseKey(a), CaseKey(b)) THEN -1 ELSE 1

\* The escape of one token under encodeURIComponent.
EncodeToken(t) ==
    CASE t = "/" -> <<"%", "2F">>
      [] t = "%" -> <<"%", "25">>
      [] t = " " -> <<"%", "20">>
      [] t = "?" -> <<"%", "3F">>
      [] t = ":" -> <<"%", "3A">>
      [] OTHER   -> <<t>>

RECURSIVE EncodeURIComponent(_)
EncodeURIComponent(s) ==
    IF s = <<>> THEN <<>> ELSE EncodeToken(Head(s)) \o EncodeURIComponent(Tail(s))

\* The character an escape code stands for, "" for a code that is none.
DecodeCode(c) ==
    CASE c = "2F" -> "/"
      [] c = "25" -> "%"
      [] c = "20" -> " "
      [] c = "3F" -> "?"
      [] c = "3A" -> ":"
      [] OTHER    -> ""

RECURSIVE DecodeURIComponent(_)
\* decodeURIComponent; a "%" that starts no escape makes the result <<"URIError">>
\* (the exception the built-in throws).
DecodeURIComponent(s) ==
    IF s = <<>> THEN <<>>
    ELSE IF Head(s) # "%" THEN
        LET rest == DecodeURIComponent(Tail(s))
        IN  IF rest = <<"URIError">> THEN rest ELSE <<Head(s)>> \o rest
    ELSE IF Len(s) < 2 \/ DecodeCode(s[2]) = "" THEN <<"URIError">>
    ELSE LET rest == DecodeURIComponent(SubSeq(s, 3, Len(s)))
         IN  IF rest = <<"URIError">> THEN rest ELSE <<DecodeCode(s[2])>> \o rest

\* ---------------------------------------------------------------- settings
\* game.settings values of the module.  The server URL, the account and the
\* subdirectory are chosen once (Init) and stay; skipPublicLinkConfirmation and
\* nextcloudFilePaths are written by the flows.
ServerUrl == <<"https", ":", "/", "/", "nc">>
UserName == <<"u">>
AppPassword == <<"pw">>
SubDir == <<"sub">>

\* The configurations a behaviour can start with: complete (with and without
\* a subdirectory) and without app password.
Configs ==
    { [url |-> ServerUrl, userName |-> UserName, appPassword |-> AppPassword, subdirectory |-> EmptyStr],
      [url |-> ServerUrl, userName |-> UserName, appPassword |-> AppPassword, subdirectory |-> SubDir],
      [url |-> ServerUrl, userName |-> UserName, appPassword |-> EmptyStr, subdirectory |-> EmptyStr] }

\* A request can be answered by the Nextcloud server only when the URL and the
\* credentials are set: otherwise fetch reaches no server or gets a 401.
Reachable(cfg) == cfg.url # EmptyStr /\ cfg.userName # EmptyStr /\ cfg.appPassword # EmptyStr

\* ------------------------------------------------------------ server files
\* The files and directories under the configured root, each a sequence of
\* path segments (a segment is a string).
RootDir == <<>>
ImgDir == <<<<"img">>>>
SpaceDir == <<<<"my", " ", "dir">>>>
FileA == <<<<"a", ".png">>>>
FileCat == <<<<"img">>, <<"cat", ".png">>>>
ServerDirs == {RootDir, ImgDir, SpaceDir}
ServerFiles == {FileA, FileCat}
ServerNodes == ServerDirs \cup ServerFiles

\* The children of a directory in the order the server lists them.
ChildOrder(dir) ==
    IF dir = RootDir THEN <<ImgDir, SpaceDir, FileA>> ELSE IF dir = ImgDir THEN <<FileCat>> ELSE <<>>

\* The segments of a path string, empty segments dropped (the server's
\* normalisation of "a//b" and of leading and trailing slashes).
Segments(path) == SelectSeq(Split(path, "/"), LAMBDA seg : seg # <<>>)

\* The answer for a path that names no node.
NotFound == <<<<"404">>>>

\* The node a path sent to the server names, relative to the configured root;
\* NotFound when there is none.  `full` is relative to the user's storage.
ServerNode(cfg, full) ==
    LET segs == Segments(full)
        sub  == Segments(cfg.subdirectory)
        rel  == IF Len(segs) >= Len(sub) /\ SubSeq(segs, 1, Len(sub)) = sub
                THEN SubSeq(segs, Len(sub) + 1, Len(segs))
                ELSE NotFound
    IN  IF rel \in ServerNodes THEN rel ELSE NotFound

\* ------------------------------------------------------------ WebDAV hrefs
DavRoot == <<"/", "remote.php", "/", "dav", "/", "files", "/">>

\* The href the server reports for a node: the DAV root, the account, the
\* subdirectory, the URL-encoded segments, and a trailing slash on collections.
DavHref(cfg, segs, collection) ==
    LET base == DavRoot \o cfg.userName \o <<"/">>
                \o (IF cfg.subdirectory = EmptyStr THEN <<>> ELSE cfg.subdirectory \o <<"/">>)
        enc  == [i \in 1..Len(segs) |-> EncodeURIComponent(segs[i])]
    IN  base \o Join(enc, "/") \o (IF collection THEN <<"/">> ELSE <<>>)

ServerHref(cfg, node) == DavHref(cfg, node, node \in ServerDirs /\ node # RootDir)

\* removeDavRootDir (main.js 799-803).
removeDavRootDir(cfg, dirHref) ==
    LET removalString == DavRoot \o cfg.userName \o <<"/">> \o cfg.subdirectory \o <<"/">>
    IN  Substring(dirHref, Len(removalString) - 1)

\* ---------------------------------------------------------------- listing
\* The body of a PROPFIND answer: one response node per entry, the queried
\* collection first, each with its href and its resourcetype ("collection",
\* "empty": a resourcetype element with no collection child, "missing": no
\* resourcetype element).
ResponseNode(cfg, node) ==
    [href |-> ServerHref(cfg, node),
     resourcetype |-> IF node \in ServerDirs THEN "collection" ELSE "empty"]

PropfindBody(cfg, dir) ==
    <<ResponseNode(cfg, dir)>> \o [i \in 1..Len(ChildOrder(dir)) |-> ResponseNode(cfg, ChildOrder(dir)[i])]

\* One entry of _parseWebDavResponse (main.js 816-819): name and href.
ParsedEntry(cfg, response) ==
    LET href == removeDavRootDir(cfg, StripTrailingSlash(response.href))
    IN  [name |-> DecodeURIComponent(Pop(Split(href, "/"))), href |-> href]

\* _parseWebDavResponse (main.js 809-827).  error is "TypeError" when a node
\* has no resourcetype element (querySelector on null), "URIError" when a
\* name does not decode, else "none".
parseWebDavResponse(cfg, xml) ==
    LET entries == [i \in 1..Len(xml) |-> ParsedEntry(cfg, xml[i]) @@ [isDirectory |-> xml[i].resourcetype = "collection"]]
        strip(e) == [name |-> e.name, href |-> e.href]
        dirs     == SelectSeq(entries, LAMBDA e : e.isDirectory)
        fls      == SelectSeq(entries, LAMBDA e : ~e.isDirectory)
    IN  IF \E i \in 1..Len(xml) : xml[i].resourcetype = "missing"
          THEN [error |-> "TypeError", files |-> <<>>, directories |-> <<>>]
        ELSE IF \E i \in 1..Len(xml) : entries[i].name = <<"URIError">>
          THEN [error |-> "URIError", files |-> <<>>, directories |-> <<>>]
        ELSE [error |-> "none",
              files |-> [i \in 1..Len(fls) |-> strip(fls[i])],
              directories |-> [i \in 1..Len(dirs) |-> strip(dirs[i])]]

\* _convertToBrowseResults (main.js 773-798): the directory whose href is the
\* listed path is left out; names, paths and urls are URL-decoded.
convertToBrowseResults(data, path) ==
    LET kept == SelectSeq(data.directories, LAMBDA d : d.href # path)
    IN  [dirs  |-> [i \in 1..Len(kept) |->
                       [name |-> DecodeURIComponent(kept[i].name),
                        path |-> DecodeURIComponent(kept[i].href)]],
         files |-> [i \in 1..Len(data.files) |->
                       [name |-> DecodeURIComponent(data.files[i].name),
                        path |-> DecodeURIComponent(data.files[i].href),
                        url  |-> DecodeURIComponent(data.files[i].href)]]]

\* this.result as browse builds it (main.js 624-635).
BrowseResult(target, converted) ==
    [target |-> target,
     dirs   |-> [i \in 1..Len(converted.dirs) |-> converted.dirs[i].path],
     files  |-> [i \in 1..Len(converted.files) |-> converted.files[i].url]]

\* browse, lines 618-623: the files kept when the picker restricts extensions.
filterFiles(files, type, extensions) ==
    IF type # "any" /\ Len(extensions) > 0
    THEN SelectSeq(files, LAMBDA file :
             \E i \in 1..Len(extensions) : EndsWith(ToLowerCase(file.name), extensions[i]))
    ELSE files

\* Whether _convertToBrowseResults raises: a name or an href that
\* decodeURIComponent rejects.
ConvertRaises(converted) ==
    \/ \E i \in 1..Len(converted.dirs) :
          <<"URIError">> \in {converted.dirs[i].name, converted.dirs[i].path}
    \/ \E i \in 1..Len(converted.files) :
          <<"URIError">> \in {converted.files[i].name, converted.files[i].path}

\* browse after its await (main.js 123, 617-635) for the body of the answer:
\* the error raised ("none" if none) and this.result.
BrowseListing(cfg, target, xml, type, extensions) ==
    LET data      == parseWebDavResponse(cfg, xml)
        converted == convertToBrowseResults(data, target)
        error     == IF data.error # "none" THEN data.error
                     ELSE IF ConvertRaises(converted) THEN "URIError"
                     ELSE "none"
    IN  [error  |-> error,
         result |-> BrowseResult(target,
                        [converted EXCEPT !.files = filterFiles(@, type, extensions)])]

RECURSIVE Insert(_, _)
\* x placed in a sorted array after the elements that do not come after it.
Insert(x, sorted) ==
    IF sorted = <<>> THEN <<x>>
    ELSE IF localeCompare(Head(sorted).name, x.name) <= 0
    THEN <<Head(sorted)>> \o Insert(x, Tail(sorted))
    ELSE <<x>> \o sorted

RECURSIVE SortByName(_)
\* Array.prototype.sort((a, b) => a.name.localeCompare(b.name)), a stable sort.
SortByName(entries) ==
    IF entries = <<>> THEN <<>>
    ELSE Insert(entries[Len(entries)], SortByName(SubSeq(entries, 1, Len(entries) - 1)))

\* getData, lines 662-667: the directories shown.
GetDataDirs(res) ==
    SortByName([i \in 1..Len(res.dirs) |->
                   [name |-> DecodeURIComponent(Pop(Split(res.dirs[i], "/"))), path |-> res.dirs[i]]])

\* getData, lines 668-681: the files shown.
GetDataFiles(res) ==
    [i \in 1..Len(res.files) |->
        [name |-> DecodeURIComponent(Pop(Split(res.files[i], "/"))), url |-> res.files[i]]]

\* The value of the form's file input after a click on a file of a listing:
\* the url of the file's entry.
FileUrl(cfg, node) == DecodeURIComponent(removeDavRootDir(cfg, StripTrailingSlash(ServerHref(cfg, node))))

\* ------------------------------------------------------------- sharing API
\* JavaScript null and false, as the values a flow holds in place of a string.
Null == <<"null">>
False == <<"false">>
\* A value not yet produced.
None == <<"none">>
\* The outcome of a call that raised instead of returning.
Raised == <<"throw">>

\* !v with false taken for a value that is set.
FalsyButFalse(v) == v = Null \/ v = EmptyStr

\* !v of JavaScript for the values a flow tests.
Falsy(v) == v = Null \/ v = False \/ v = EmptyStr

\* The share kind (public link) and the permission (read) createPublicLink asks for.
ShareTypeLink == 3
PermissionRead == 1

\* The base URL the server gives a public link.
ShareUrl(token) == ServerUrl \o <<"/", "s", "/", token>>

\* A share reported without url element, whatever its kind.
ShareElementWithoutUrl(share) ==
    [share_type |-> share.shareType, hasUrl |-> FALSE, url |-> EmptyStr]

\* One share as the sharing API reports it; only a public link has a url.
ShareElement(share) ==
    [share_type |-> share.shareType,
     hasUrl     |-> share.shareType = ShareTypeLink,
     url        |-> IF share.shareType = ShareTypeLink THEN ShareUrl(share.token) ELSE EmptyStr]

\* The body of the answer that lists the shares in `list`.
SharesBody(list) == [i \in 1..Len(list) |-> ShareElement(list[i])]

\* The url read from the first share of the body, whatever its kind.
FirstUrlOfFirstShare(body) ==
    IF body # <<>> THEN body[1].url ELSE Null

\* xmlDoc.querySelector("url"): the first url element of the body, Null if none.
FirstUrl(body) ==
    IF \E i \in 1..Len(body) : body[i].hasUrl
    THEN body[CHOOSE i \in 1..Len(body) : body[i].hasUrl /\ \A j \in 1..(i - 1) : ~body[j].hasUrl].url
    ELSE Null

\* checkPublicLink (main.js 347-350): the path parameter of the shares query.
CheckFilePath(cfg, path) ==
    IF cfg.subdirectory # EmptyStr
    THEN cfg.subdirectory \o <<"/">> \o EncodeURIComponent(path)
    ELSE EncodeURIComponent(path)

\* checkPublicLink with the test of the url element inverted.
checkPublicLinkInverted(cfg, path, body) ==
    IF FirstUrl(body) # Null
    THEN Null
    ELSE Null \o <<"/", "download", "/">> \o EncodeURIComponent(Pop(Split(CheckFilePath(cfg, path), "/")))

\* checkPublicLink for a file (main.js 356-365): what it returns for the body
\* of a successful answer.
checkPublicLink(cfg, path, body) ==
    LET filePath == CheckFilePath(cfg, path)
        fileName == EncodeURIComponent(Pop(Split(filePath, "/")))
    IN  IF FirstUrl(body) # Null
        THEN FirstUrl(body) \o <<"/", "download", "/">> \o fileName
        ELSE Null

\* createPublicLink asking for a share with a user.
CreateBodyUserShare(cfg, file) ==
    [path        |-> IF cfg.subdirectory # EmptyStr THEN cfg.subdirectory \o <<"/">> \o file ELSE file,
     shareType   |-> 0,
     permissions |-> PermissionRead]

\* createPublicLink (main.js 390-398): the form body of the POST.
CreateBody(cfg, file) ==
    [path        |-> IF cfg.subdirectory # EmptyStr THEN cfg.subdirectory \o <<"/">> \o file ELSE file,
     shareType   |-> ShareTypeLink,
     permissions |-> PermissionRead]

\* createPublicLink (main.js 402-410): what it returns for the body of a
\* successful answer.
createPublicLink(file, body) ==
    LET fileName == EncodeURIComponent(Pop(Split(file, "/")))
    IN  IF FirstUrl(body) # Null
        THEN FirstUrl(body) \o <<"/", "download", "/">> \o fileName
        ELSE Null

\* handleFileSelection with its two arguments taken in the other order.
handleFileSelectionKeyedByPath(paths, filePath, nextcloudUrl) ==
    (filePath :> nextcloudUrl) @@ paths

\* handleFileSelection that keeps no entry but the one it writes.
handleFileSelectionReplacing(paths, filePath, nextcloudUrl) ==
    (nextcloudUrl :> filePath)

\* handleFileSelection (main.js 884-888): the map with nextcloudUrl set to
\* filePath (a null key is the property "null", which is how Null is written).
handleFileSelection(paths, filePath, nextcloudUrl) ==
    (nextcloudUrl :> filePath) @@ paths

\* showConfirmationDialog (main.js 489-491): TRUE when it resolves true
\* without a dialog.
SkipsDialog(skip) == skip

\* showConfirmationDialog with a close handler that resolves true.
DialogResultCloseConfirms(action) == action \in {"yes", "close"}

\* showConfirmationDialog with a No button that resolves true.
DialogResultNoConfirms(action) == action \in {"yes", "no"}

\* showConfirmationDialog (main.js 500-517): what the promise resolves to for
\* the user's action on the dialog ("yes", "no", "close").
DialogResult(action) == action = "yes"

\* handleNextcloudError with the credentials tested before the URL.
handleNextcloudErrorCredentialsFirst(cfg, message) ==
    IF cfg.userName = EmptyStr \/ cfg.appPassword = EmptyStr THEN "credentialsNotSet"
    ELSE IF cfg.url = EmptyStr THEN "urlNotSet"
    ELSE IF Includes(message, <<"CORS">>) \/ Includes(message, <<"NetworkError">>) THEN "corsError"
    ELSE "connectionError"

\* handleNextcloudError (main.js 101-112) with _isCorsError (251-253): the
\* error UI it renders for an error with the given message.
handleNextcloudError(cfg, message) ==
    IF cfg.url = EmptyStr THEN "urlNotSet"
    ELSE IF cfg.userName = EmptyStr \/ cfg.appPassword = EmptyStr THEN "credentialsNotSet"
    ELSE IF Includes(message, <<"CORS">>) \/ Includes(message, <<"NetworkError">>) THEN "corsError"
    ELSE "connectionError"

\* isNextcloudUrl (main.js 732-734).
isNextcloudUrl(cfg, path) == Includes(path, cfg.url)

\* extractFileName (main.js 740-742).
extractFileName(path) == DecodeURIComponent(Split(Pop(Split(path, "/")), "?")[1])

\* ------------------------------------------------------------------ state
VARIABLES
    config,                     \* url, userName, appPassword, subdirectory settings
    skipPublicLinkConfirmation, \* the client setting of that name
    nextcloudFilePaths,         \* the world setting of that name: public URL -> path
    shares,                     \* server: the shares of each file, oldest first
    activeSource,               \* this.activeSource
    closed,                     \* the picker has been closed (this.close())
    fileInput,                  \* ev.target.file.value, the form's file input
    result,                     \* this.result
    sourceTarget,               \* this.sources.nextcloud.target
    lastBrowsed,                \* FilePicker.LAST_BROWSED_DIRECTORY
    loaded,                     \* this._loaded
    fieldValue,                 \* this.field.value
    callbackArg,                \* the argument of the last this.callback call
    spinners,                   \* number of .spinner-overlay elements
    errorUI,                    \* the error template rendered, "none" if none
    flows,                      \* the pending _onSubmit invocations
    browses,                    \* the browse invocations, in order of start
    numOps,                     \* history: number of user operations so far
    posts,                      \* history: number of share-creation POSTs sent per path
    last,                       \* history: what the last step did
    thumbnailCache,             \* NextcloudFilePicker.thumbnailCache: file url -> image
    fetches                     \* the fetchImageAsBase64 calls, in order of start

vars == <<config, skipPublicLinkConfirmation, nextcloudFilePaths, shares, activeSource,
          closed, fileInput, result, sourceTarget, lastBrowsed, loaded, fieldValue,
          callbackArg, spinners, errorUI, flows, browses, numOps, posts, last,
          thumbnailCache, fetches>>

FlowIds == 1..MaxOps
BrowseIds == 1..MaxOps

\* An _onSubmit invocation.  pc is where it waits: "idle" (no invocation in
\* this slot), "check" (the shares query of checkPublicLink), "dialog" (the
\* confirmation dialog), "create" (the POST of createPublicLink).  path is
\* its local variable; linkAtSubmit records whether the selected file had a
\* public link on the server when the invocation started.
IdleFlow == [pc |-> "idle", path |-> None, linkAtSubmit |-> FALSE]

\* A browse invocation: "new", "propfind" (the listing request), "done".
NewBrowse == [pc |-> "new", target |-> None]

EmptyResult == [target |-> None, dirs |-> <<>>, files |-> <<>>]

\* What a step did: the operation, the slot of the invocation that ran, the
\* path it holds, its linkAtSubmit, the kind of response that arrived, the value the invocation
\* obtained from it (a public link, Null, False), the
\* user's answer to the dialog, whether it sent a share-creation POST, how the
\* invocation ended ("none" while it goes on), the notification it showed,
\* and the map entry it wrote; for a direct call of browse, the body of the
\* answer and the picker's type and extensions; for a direct call of
\* checkPublicLink on a directory, the shares the server holds and the names
\* returned.
NoEvent ==
    [op |-> "init", id |-> 0, path |-> None, link |-> FALSE, response |-> "none", value |-> None,
     answer |-> "none", post |-> FALSE,
     outcome |-> "none", notified |-> "none", storedKey |-> None, storedPath |-> None,
     xml |-> <<>>, type |-> "any", extensions |-> <<>>, held |-> <<>>, names |-> <<>>]

Pending(f) == flows[f].pc # "idle"
NumBrowses == Cardinality({b \in BrowseIds : browses[b].pc # "new"})
NumShares == Len(shares[FileA]) + Len(shares[FileCat])

\* The public link a file has before the behaviour starts, if it has one.
InitialShare(node) ==
    [shareType |-> ShareTypeLink, permissions |-> PermissionRead,
     token |-> IF node = FileA THEN "ta" ELSE "tc"]

\* Shares of the other kinds the sharing API knows: with a user (share type 0)
\* and with a group (share type 1).
UserShare == [shareType |-> 0, permissions |-> PermissionRead, token |-> "tu"]
GroupShare == [shareType |-> 1, permissions |-> PermissionRead, token |-> "tg"]

\* The shares the server holds when a behaviour starts: none; a public link
\* of img/cat.png; a public link of img/cat.png listed after a share with a
\* user, and a.png shared with a group only.
InitialShares ==
    { [n \in ServerFiles |-> <<>>],
      [n \in ServerFiles |-> IF n = FileCat THEN <<InitialShare(n)>> ELSE <<>>],
      [n \in ServerFiles |-> IF n = FileCat THEN <<UserShare, InitialShare(n)>> ELSE <<GroupShare>>] }

\* Whether a file has a public link on the server.
HasLink(node) == \E i \in 1..Len(shares[node]) : shares[node][i].shareType = ShareTypeLink

\* The constructor (main.js 63-77): the nextcloud source is made active, with
\* the stored path of the request as target, when the request is a Nextcloud URL.
ConstructSource(cfg, request, default) ==
    IF isNextcloudUrl(cfg, request) THEN "nextcloud" ELSE default

ConstructTarget(cfg, paths, request) ==
    IF isNextcloudUrl(cfg, request) /\ request \in DOMAIN paths /\ ~Falsy(paths[request])
    THEN paths[request]
    ELSE EmptyStr

\* The nextcloudFilePaths setting an earlier session leaves when img/cat.png
\* was selected in it while it had its public link: the entry _onSubmit
\* writes at line 474.
StoredEarlier(cfg) ==
    handleFileSelection(<<>>, FileUrl(cfg, FileCat),
                        checkPublicLink(cfg, FileUrl(cfg, FileCat), SharesBody(<<InitialShare(FileCat)>>)))

Init ==
    /\ config \in Configs
    /\ skipPublicLinkConfirmation \in BOOLEAN
    /\ shares \in InitialShares
    /\ nextcloudFilePaths \in
          {<<>>} \cup (IF shares[FileCat] = <<InitialShare(FileCat)>> THEN {StoredEarlier(config)} ELSE {})
    /\ \E default \in {"nextcloud", "data"} :
          activeSource = ConstructSource(config, EmptyStr, default)
    /\ closed = FALSE
    /\ fileInput = EmptyStr
    /\ result = EmptyResult
    /\ sourceTarget = ConstructTarget(config, <<>>, EmptyStr)
    /\ lastBrowsed = EmptyStr
    /\ loaded = FALSE
    /\ fieldValue = EmptyStr
    /\ callbackArg = None
    /\ spinners = 0
    /\ errorUI = "none"
    /\ flows = [f \in FlowIds |-> IdleFlow]
    /\ browses = [b \in BrowseIds |-> NewBrowse]
    /\ numOps = 0
    /\ posts = <<>>
    /\ last = NoEvent
    /\ thumbnailCache = <<>>
    /\ fetches = <<>>

\* The number of POSTs sent for a path so far.
PostCount(path) == IF path \in DOMAIN posts THEN posts[path] ELSE 0

\* -------------------------------------------------------- selection flow
\* What assigning v to an input's value leaves in it (null becomes "").
DomValue(v) == IF v = Null THEN EmptyStr ELSE v

\* The file a shares query or a share creation names on the server.
QueriedNode(cfg, path) == ServerNode(cfg, DecodeURIComponent(CheckFilePath(cfg, path)))
CreatedNode(cfg, path) == ServerNode(cfg, CreateBody(cfg, path).path)

\* _onSubmit, lines 477-482: the field is written, the callback is called and
\* the picker is closed.
Resolve(value) ==
    /\ fieldValue' = DomValue(value)
    /\ callbackArg' = value
    /\ closed' = TRUE

\* createPublicLink up to its await (main.js 390-400): the spinner is shown
\* and the POST is sent.
SendCreate(f) ==
    /\ spinners' = spinners + 1
    /\ posts' = (flows[f].path :> (PostCount(flows[f].path) + 1)) @@ posts
    /\ flows' = [flows EXCEPT ![f].pc = "create"]

\* The user clicks a file of the listing, or types its path: the form's file
\* input takes the file's url.
SelectFile(node) ==
    /\ ~closed
    /\ numOps < MaxOps
    /\ fileInput # FileUrl(config, node)
    /\ fileInput' = FileUrl(config, node)
    /\ numOps' = numOps + 1
    /\ last' = [NoEvent EXCEPT !.op = "select"]
    /\ UNCHANGED <<thumbnailCache, fetches, config, skipPublicLinkConfirmation, nextcloudFilePaths, shares, activeSource,
                   closed, result, sourceTarget, lastBrowsed, loaded, fieldValue, callbackArg,
                   spinners, errorUI, flows, browses, posts>>

\* _onSubmit up to its first await (main.js 449-454), or to its end when no
\* file is selected or the active source is not nextcloud.
Submit(f) ==
    /\ ~closed
    /\ numOps < MaxOps
    /\ ~Pending(f) /\ \A g \in 1..(f - 1) : Pending(g)
    /\ numOps' = numOps + 1
    /\ LET path == fileInput
           ev   == [NoEvent EXCEPT !.op = "submit", !.id = f, !.path = path]
       IN  IF Falsy(path)
           THEN /\ last' = [ev EXCEPT !.outcome = "nofile", !.notified = "error"]
                /\ UNCHANGED <<flows, fieldValue, callbackArg, closed>>
           ELSE IF activeSource = "nextcloud"
           THEN /\ flows' = [flows EXCEPT ![f] =
                                [pc |-> "check", path |-> path,
                                 linkAtSubmit |-> (QueriedNode(config, path) \in ServerFiles
                                                   /\ HasLink(QueriedNode(config, path)))]]
                /\ last' = ev
                /\ UNCHANGED <<fieldValue, callbackArg, closed>>
           ELSE /\ last' = [ev EXCEPT !.outcome = "passthrough", !.value = path]
                /\ Resolve(path)
                /\ UNCHANGED flows
    /\ UNCHANGED <<thumbnailCache, fetches, config, skipPublicLinkConfirmation, nextcloudFilePaths, shares, activeSource,
                   fileInput, result, sourceTarget, lastBrowsed, loaded, spinners, errorUI,
                   browses, posts>>

\* The answer to the shares query of checkPublicLink arrives (ok) or the
\* request fails (~ok), and _onSubmit runs on to its next await or to its end
\* (main.js 352-382, 454-456, 472-482).
CheckResponse(f, ok) ==
    /\ flows[f].pc = "check"
    /\ ok => Reachable(config) /\ QueriedNode(config, flows[f].path) \in ServerFiles
    /\ LET path       == flows[f].path
           publicLink == IF ok
                         THEN checkPublicLink(config, path, SharesBody(shares[QueriedNode(config, path)]))
                         ELSE False
           ev         == [NoEvent EXCEPT !.op = "check", !.id = f, !.path = path,
                                         !.link = flows[f].linkAtSubmit,
                                         !.response = IF ok THEN "ok" ELSE "error",
                                         !.value = publicLink]
       IN  IF ~Falsy(publicLink)
           THEN /\ nextcloudFilePaths' = handleFileSelection(nextcloudFilePaths, fileInput, publicLink)
                /\ flows' = [flows EXCEPT ![f] = IdleFlow]
                /\ last' = [ev EXCEPT !.outcome = "resolved", !.storedKey = publicLink,
                                      !.storedPath = fileInput]
                /\ Resolve(publicLink)
                /\ UNCHANGED <<spinners, posts>>
           ELSE IF SkipsDialog(skipPublicLinkConfirmation)
           THEN /\ SendCreate(f)
                /\ last' = [ev EXCEPT !.post = TRUE]
                /\ UNCHANGED <<nextcloudFilePaths, fieldValue, callbackArg, closed>>
           ELSE /\ flows' = [flows EXCEPT ![f].pc = "dialog"]
                /\ last' = ev
                /\ UNCHANGED <<nextcloudFilePaths, fieldValue, callbackArg, closed, spinners, posts>>
    /\ UNCHANGED <<thumbnailCache, fetches, config, skipPublicLinkConfirmation, shares, activeSource, fileInput, result,
                   sourceTarget, lastBrowsed, loaded, errorUI, browses, numOps>>

\* The dialog without its close handler: closing it leaves _onSubmit waiting.
DialogAnswerCloseHangs(f, action, checked) ==
    /\ flows[f].pc = "dialog"
    /\ action # "yes" => ~checked
    /\ skipPublicLinkConfirmation' = IF action = "yes" THEN checked ELSE skipPublicLinkConfirmation
    /\ LET ev == [NoEvent EXCEPT !.op = "dialog", !.id = f, !.path = flows[f].path,
                                 !.link = flows[f].linkAtSubmit, !.answer = action]
       IN  IF DialogResult(action)
           THEN /\ SendCreate(f)
                /\ last' = [ev EXCEPT !.post = TRUE]
           ELSE /\ flows' = IF action = "close" THEN flows ELSE [flows EXCEPT ![f] = IdleFlow]
                /\ last' = IF action = "close" THEN ev ELSE [ev EXCEPT !.outcome = "declined"]
                /\ UNCHANGED <<spinners, posts>>
    /\ UNCHANGED <<thumbnailCache, fetches, config, nextcloudFilePaths, shares, activeSource, closed, fileInput, result,
                   sourceTarget, lastBrowsed, loaded, fieldValue, callbackArg, errorUI, browses,
                   numOps>>

\* The user answers the confirmation dialog (main.js 500-517) and _onSubmit
\* runs on (456-459, 468-470): Yes stores the "Do not ask again" checkbox
\* and starts createPublicLink, No and closing the dialog end the flow.
DialogAnswer(f, action, checked) ==
    /\ flows[f].pc = "dialog"
    /\ action # "yes" => ~checked
    /\ skipPublicLinkConfirmation' = IF action = "yes" THEN checked ELSE skipPublicLinkConfirmation
    /\ LET ev == [NoEvent EXCEPT !.op = "dialog", !.id = f, !.path = flows[f].path,
                                 !.link = flows[f].linkAtSubmit, !.answer = action]
       IN  IF DialogResult(action)
           THEN /\ SendCreate(f)
                /\ last' = [ev EXCEPT !.post = TRUE]
           ELSE /\ flows' = [flows EXCEPT ![f] = IdleFlow]
                /\ last' = [ev EXCEPT !.outcome = "declined"]
                /\ UNCHANGED <<spinners, posts>>
    /\ UNCHANGED <<thumbnailCache, fetches, config, nextcloudFilePaths, shares, activeSource, closed, fileInput, result,
                   sourceTarget, lastBrowsed, loaded, fieldValue, callbackArg, errorUI, browses,
                   numOps>>

\* The answer to the POST of createPublicLink arrives and _onSubmit runs to
\* its end (main.js 400-410, 459-467, 477-482).  outcome: "ok" (the share is
\* created and reported), "nourl" (a success status whose body holds no url
\* element; nothing is created), "error" (the request fails and
\* makeNextcloudApiRequest throws).
CreateResponse(f, outcome) ==
    /\ flows[f].pc = "create"
    /\ outcome = "ok" => Reachable(config) /\ CreatedNode(config, flows[f].path) \in ServerFiles
    /\ flows' = [flows EXCEPT ![f] = IdleFlow]
    /\ LET path == flows[f].path
           ev   == [NoEvent EXCEPT !.op = "create", !.id = f, !.path = path,
                                   !.link = flows[f].linkAtSubmit, !.response = outcome]
       IN  IF outcome = "error"
           THEN /\ last' = [ev EXCEPT !.outcome = "failed", !.notified = "error", !.value = Raised]
                /\ UNCHANGED <<shares, spinners, nextcloudFilePaths, fieldValue, callbackArg, closed>>
           ELSE LET node   == CreatedNode(config, path)
                    req    == CreateBody(config, path)
                    share  == [shareType |-> req.shareType, permissions |-> req.permissions,
                               token |-> ToString(NumShares + 1)]
                    body   == IF outcome = "ok" THEN SharesBody(<<share>>) ELSE <<>>
                    target == createPublicLink(path, body)
                IN  /\ shares' = IF outcome = "ok" THEN [shares EXCEPT ![node] = Append(@, share)]
                                 ELSE shares
                    /\ spinners' = 0
                    /\ nextcloudFilePaths' = handleFileSelection(nextcloudFilePaths, fileInput, target)
                    /\ last' = [ev EXCEPT !.outcome = "resolved", !.notified = "info", !.value = target,
                                          !.storedKey = target, !.storedPath = fileInput]
                    /\ Resolve(target)
    /\ UNCHANGED <<thumbnailCache, fetches, config, skipPublicLinkConfirmation, activeSource, fileInput, result,
                   sourceTarget, lastBrowsed, loaded, errorUI, browses, numOps, posts>>

\* ---------------------------------------------------------- listing flow
\* goBack (main.js 760-767): the parent of the nextcloud source's target.
ParentPath(target) ==
    LET parts == SelectSeq(Split(target, "/"), LAMBDA x : x # <<>>)
    IN  Join(SubSeq(parts, 1, Len(parts) - 1), "/")

\* The node a PROPFIND for `target` names on the server (main.js 119); for a
\* file the server answers with the response node of the file alone.
ListedNode(cfg, target) == ServerNode(cfg, cfg.subdirectory \o <<"/">> \o target)

\* The BrowseTarget: this.result, the nextcloud source's target,
\* LAST_BROWSED_DIRECTORY and this._loaded.
BrowseTarget ==
    [result |-> result, sourceTarget |-> sourceTarget, lastBrowsed |-> lastBrowsed, loaded |-> loaded]

\* browse with this._loaded set before the listing is awaited.
BrowseCommitLoadedFirst(ok, target, listing, cur) ==
    IF ok
    THEN [result |-> listing, sourceTarget |-> target, lastBrowsed |-> target, loaded |-> TRUE]
    ELSE [cur EXCEPT !.loaded = TRUE]

\* browse that assigns the listing and leaves the source's target as it was.
BrowseCommitStaleSource(ok, target, listing, cur) ==
    IF ok
    THEN [result |-> listing, sourceTarget |-> cur.sourceTarget, lastBrowsed |-> target, loaded |-> TRUE]
    ELSE cur

\* What browse leaves as BrowseTarget: the new listing when it got one
\* (main.js 624-639), the present one when the request or the parsing raised
\* (616: nothing is assigned before the await returns).
BrowseCommit(ok, target, listing, cur) ==
    IF ok
    THEN [result |-> listing, sourceTarget |-> target, lastBrowsed |-> target, loaded |-> TRUE]
    ELSE cur

\* browse up to its await (main.js 614-616, 118-121), or the call of the base
\* class when the active source is not nextcloud (646-647).
StartBrowse(op, target) ==
    /\ ~closed
    /\ numOps < MaxOps
    /\ numOps' = numOps + 1
    /\ LET b  == NumBrowses + 1
           ev == [NoEvent EXCEPT !.op = op, !.id = b, !.path = target]
       IN  IF activeSource = "nextcloud"
           THEN /\ spinners' = spinners + 1
                /\ browses' = [browses EXCEPT ![b] = [pc |-> "propfind", target |-> target]]
                /\ last' = ev
           ELSE /\ browses' = [browses EXCEPT ![b] = [pc |-> "done", target |-> target]]
                /\ last' = [ev EXCEPT !.outcome = "super"]
                /\ UNCHANGED spinners
    /\ UNCHANGED <<thumbnailCache, fetches, config, skipPublicLinkConfirmation, nextcloudFilePaths, shares, activeSource,
                   closed, fileInput, result, sourceTarget, lastBrowsed, loaded, fieldValue,
                   callbackArg, errorUI, flows, posts>>

\* The picker is rendered, or the user opens a directory of the listing.
Browse(target) ==
    /\ \/ target = sourceTarget
       \/ \E i \in 1..Len(result.dirs) : target = result.dirs[i]
    /\ StartBrowse("browse", target)

\* The user clicks the back button.
GoBack ==
    /\ activeSource = "nextcloud"
    /\ StartBrowse("goBack", ParentPath(sourceTarget))

\* browse sending its request again when the listing failed.
BrowseResponseRetrying(b, outcome) ==
    /\ browses[b].pc = "propfind"
    /\ outcome \in {"ok", "badXml"} =>
          Reachable(config) /\ ListedNode(config, browses[b].target) \in ServerNodes
    /\ LET target  == browses[b].target
           xml     == IF outcome = "ok"
                      THEN PropfindBody(config, ListedNode(config, target))
                      ELSE <<[href |-> ServerHref(config, ListedNode(config, target)),
                              resourcetype |-> "missing"]>>
           data    == IF outcome \in {"ok", "badXml"}
                      THEN parseWebDavResponse(config, xml)
                      ELSE [error |-> outcome, files |-> <<>>, directories |-> <<>>]
           ok      == data.error = "none"
           listing == IF ok THEN BrowseResult(target, convertToBrowseResults(data, target)) ELSE result
           new     == BrowseCommit(ok, target, listing, BrowseTarget)
       IN  /\ result' = new.result
           /\ sourceTarget' = new.sourceTarget
           /\ lastBrowsed' = new.lastBrowsed
           /\ loaded' = new.loaded
           /\ spinners' = IF outcome \in {"ok", "badXml"} THEN 0 ELSE spinners
           /\ browses' = [browses EXCEPT ![b].pc = IF ok THEN "done" ELSE "propfind"]
           /\ last' = [NoEvent EXCEPT !.op = "listing", !.id = b, !.path = target,
                                      !.response = outcome,
                                      !.outcome = IF ok THEN "listed" ELSE "failed"]
    /\ UNCHANGED <<thumbnailCache, fetches, config, skipPublicLinkConfirmation, nextcloudFilePaths, shares, activeSource,
                   closed, fileInput, fieldValue, callbackArg, errorUI, flows, numOps, posts>>

\* The answer to the PROPFIND arrives and browse runs to its end
\* (main.js 121-125, 617-644).  outcome: "ok", "badXml" (a success status whose
\* response node has no resourcetype element), "httpError" (a non-success
\* status), "networkError" (fetch rejects).
BrowseResponse(b, outcome) ==
    /\ browses[b].pc = "propfind"
    /\ outcome \in {"ok", "badXml"} =>
          Reachable(config) /\ ListedNode(config, browses[b].target) \in ServerNodes
    /\ LET target  == browses[b].target
           xml     == IF outcome = "ok"
                      THEN PropfindBody(config, ListedNode(config, target))
                      ELSE <<[href |-> ServerHref(config, ListedNode(config, target)),
                              resourcetype |-> "missing"]>>
           data    == IF outcome \in {"ok", "badXml"}
                      THEN parseWebDavResponse(config, xml)
                      ELSE [error |-> outcome, files |-> <<>>, directories |-> <<>>]
           ok      == data.error = "none"
           listing == IF ok THEN BrowseResult(target, convertToBrowseResults(data, target)) ELSE result
           new     == BrowseCommit(ok, target, listing, BrowseTarget)
       IN  /\ result' = new.result
           /\ sourceTarget' = new.sourceTarget
           /\ lastBrowsed' = new.lastBrowsed
           /\ loaded' = new.loaded
           /\ spinners' = IF outcome \in {"ok", "badXml"} THEN 0 ELSE spinners
           /\ browses' = [browses EXCEPT ![b].pc = "done"]
           /\ last' = [NoEvent EXCEPT !.op = "listing", !.id = b, !.path = target,
                                      !.response = outcome,
                                      !.outcome = IF ok THEN "listed" ELSE "failed"]
    /\ UNCHANGED <<thumbnailCache, fetches, config, skipPublicLinkConfirmation, nextcloudFilePaths, shares, activeSource,
                   closed, fileInput, fieldValue, callbackArg, errorUI, flows, numOps, posts>>

\* --------------------------------------------------------------- reopening
\* getData that never reads the map.
SelectedForUrlOnly(cfg, paths, request) ==
    IF request # EmptyStr /\ isNextcloudUrl(cfg, request)
    THEN extractFileName(request)
    ELSE request

\* getData (main.js 715-724): the selected value shown for a request.
SelectedFor(cfg, paths, request) ==
    IF request # EmptyStr /\ isNextcloudUrl(cfg, request)
    THEN IF request \in DOMAIN paths /\ ~Falsy(paths[request])
         THEN paths[request]
         ELSE extractFileName(request)
    ELSE request

\* A public link of the same server that no selection of this picker made:
\* its file name holds an escaped space and a query string follows it.
ExternalUrl ==
    ServerUrl \o <<"/", "s", "/", "tx", "/", "download", "/", "x", "%", "20", "y.png", "?", "dl">>

\* A closed picker is opened again on the bound field, which holds what the
\* last selection wrote or a URL the user put there: the constructor
\* (main.js 63-77) runs with the field's value as request, and the form shows
\* the selected value of getData.
Open(request) ==
    /\ closed
    /\ \A f \in FlowIds : ~Pending(f)
    /\ \A b \in BrowseIds : browses[b].pc # "propfind"
    /\ numOps < MaxOps
    /\ numOps' = numOps + 1
    /\ closed' = FALSE
    /\ fieldValue' = request
    /\ activeSource' = ConstructSource(config, request, activeSource)
    /\ sourceTarget' = ConstructTarget(config, nextcloudFilePaths, request)
    /\ fileInput' = SelectedFor(config, nextcloudFilePaths, request)
    /\ result' = EmptyResult
    /\ loaded' = FALSE
    /\ spinners' = 0
    /\ last' = [NoEvent EXCEPT !.op = "open", !.path = request]
    /\ UNCHANGED <<thumbnailCache, fetches, config, skipPublicLinkConfirmation, nextcloudFilePaths, shares, lastBrowsed,
                   callbackArg, errorUI, flows, browses, posts>>

\* ------------------------------------------------------------ specification
Next ==
    \/ \E node \in ServerFiles : SelectFile(node)
    \/ \E f \in FlowIds : Submit(f)
    \/ \E f \in FlowIds, ok \in BOOLEAN : CheckResponse(f, ok)
    \/ \E f \in FlowIds, action \in {"yes", "no", "close"}, checked \in BOOLEAN :
          DialogAnswer(f, action, checked)
    \/ \E f \in FlowIds, outcome \in {"ok", "nourl", "error"} : CreateResponse(f, outcome)
    \/ \E target \in {sourceTarget} \cup {result.dirs[i] : i \in 1..Len(result.dirs)} : Browse(target)
    \/ GoBack
    \/ \E b \in BrowseIds, outcome \in {"ok", "badXml", "httpError", "networkError"} :
          BrowseResponse(b, outcome)
    \/ \E request \in {fieldValue, ExternalUrl} : Open(request)

Spec == Init /\ [][Next]_vars

\* The behaviours in which every request sent for a selection is answered or
\* fails, and every confirmation dialog shown is answered or closed.
SpecAnswered ==
    /\ Init /\ [][Next]_vars
    /\ \A f \in FlowIds :
          /\ WF_vars(\E ok \in BOOLEAN : CheckResponse(f, ok))
          /\ WF_vars(\E action \in {"yes", "no", "close"}, checked \in BOOLEAN :
                        DialogAnswer(f, action, checked))
          /\ WF_vars(\E outcome \in {"ok", "nourl", "error"} : CreateResponse(f, outcome))

\* ------------------------------------------------- uploads and directories
\* The sources a static method of the picker can be called for.
Sources == {"nextcloud", "data"}

\* upload sending its PUT whatever the source.
uploadAlways(source) == "PUT"

\* upload (main.js 531-552): the request it sends to the Nextcloud server,
\* "super" when it hands the call to the base picker.
upload(source) == IF source = "nextcloud" THEN "PUT" ELSE "super"

\* createDirectory (main.js 591-607): the request it sends to the Nextcloud
\* server, "super" when it hands the call to the base picker.
createDirectory(source) == IF source = "nextcloud" THEN "MKCOL" ELSE "super"

\* canUpload (main.js 227-235): whether the getter hands over to the base
\* picker, and its own answer when it does not.
canUpload(source, type, allowUpload, userCan) ==
    [delegated |-> source # "nextcloud",
     value     |-> source = "nextcloud" /\ type # "folder" /\ allowUpload /\ userCan]

\* upload(source, ...) is called and runs to its end; ok: the PUT succeeds.
\* Only the request is recorded: the files of the server are fixed.
Upload(source, ok) ==
    /\ ~closed
    /\ numOps < MaxOps
    /\ numOps' = numOps + 1
    /\ last' = [NoEvent EXCEPT !.op = "upload", !.path = <<source>>,
                               !.response = upload(source),
                               !.outcome = IF upload(source) = "super" THEN "super"
                                           ELSE IF ok THEN "uploaded" ELSE "failed"]
    /\ UNCHANGED <<thumbnailCache, fetches, config, skipPublicLinkConfirmation, nextcloudFilePaths,
                   shares, activeSource, closed, fileInput, result, sourceTarget, lastBrowsed,
                   loaded, fieldValue, callbackArg, spinners, errorUI, flows, browses, posts>>

\* createDirectory(source, ...) is called and runs to its end; ok: the MKCOL
\* succeeds.  A failure is notified and false is returned (601-604).
CreateDirectory(source, ok) ==
    /\ ~closed
    /\ numOps < MaxOps
    /\ numOps' = numOps + 1
    /\ last' = [NoEvent EXCEPT !.op = "createDirectory", !.path = <<source>>,
                               !.response = createDirectory(source),
                               !.outcome = IF createDirectory(source) = "super" THEN "super"
                                           ELSE IF ok THEN "created" ELSE "failed",
                               !.notified = IF createDirectory(source) = "super" THEN "none"
                                            ELSE IF ok THEN "info" ELSE "error"]
    /\ UNCHANGED <<thumbnailCache, fetches, config, skipPublicLinkConfirmation, nextcloudFilePaths,
                   shares, activeSource, closed, fileInput, result, sourceTarget, lastBrowsed,
                   loaded, fieldValue, callbackArg, spinners, errorUI, flows, browses, posts>>

\* The picker with its uploads and directory creations.
NextWithUploads ==
    \/ Next
    \/ \E source \in Sources, ok \in BOOLEAN : Upload(source, ok)
    \/ \E source \in Sources, ok \in BOOLEAN : CreateDirectory(source, ok)

SpecUploads == Init /\ [][NextWithUploads]_vars

\* The picker constructed for a field that holds the public link an earlier
\* session stored for img/cat.png: the constructor makes the nextcloud source
\* active with the stored path as target (main.js 70-76), and the form shows
\* the stored path as the selected file (715-720).
InitReopened ==
    /\ config \in Configs
    /\ skipPublicLinkConfirmation \in BOOLEAN
    /\ shares = [n \in ServerFiles |-> IF n = FileCat THEN <<InitialShare(n)>> ELSE <<>>]
    /\ nextcloudFilePaths = StoredEarlier(config)
    /\ \E request \in DOMAIN nextcloudFilePaths :
          /\ fieldValue = request
          /\ activeSource = ConstructSource(config, request, "data")
          /\ sourceTarget = ConstructTarget(config, nextcloudFilePaths, request)
          /\ fileInput = SelectedFor(config, nextcloudFilePaths, request)
    /\ closed = FALSE
    /\ result = EmptyResult
    /\ lastBrowsed = EmptyStr
    /\ loaded = FALSE
    /\ callbackArg = None
    /\ spinners = 0
    /\ errorUI = "none"
    /\ flows = [f \in FlowIds |-> IdleFlow]
    /\ browses = [b \in BrowseIds |-> NewBrowse]
    /\ numOps = 0
    /\ posts = <<>>
    /\ last = NoEvent
    /\ thumbnailCache = <<>>
    /\ fetches = <<>>

SpecReopened == InitReopened /\ [][Next]_vars

\* ------------------------------------------------------------ direct calls
\* The methods of a newly constructed picker called on inputs of the caller's
\* choice: browse on an arbitrary listing answer for the root, and
\* handleNextcloudError on an arbitrary error, under every combination of
\* set and unset settings.
CallConfigs ==
    [url : {ServerUrl, EmptyStr}, userName : {UserName, EmptyStr},
     appPassword : {AppPassword, EmptyStr}, subdirectory : {EmptyStr, SubDir}]

\* The entries a listing answer for the root can hold: two directories, files
\* with lower- and upper-case names and extensions, a file with a "%" in its
\* name, and a node that has no resourcetype element.
AnswerEntries ==
    { [name |-> <<"b">>, resourcetype |-> "collection"],
      [name |-> <<"A">>, resourcetype |-> "collection"],
      [name |-> <<"b", ".png">>, resourcetype |-> "empty"],
      [name |-> <<"a", ".png">>, resourcetype |-> "empty"],
      [name |-> <<"C", ".PNG">>, resourcetype |-> "empty"],
      [name |-> <<"50", "%", ".png">>, resourcetype |-> "empty"],
      [name |-> <<"n", ".txt">>, resourcetype |-> "missing"] }

\* The response node of an entry of the root.
AnswerNode(cfg, entry) ==
    [href |-> DavHref(cfg, <<entry.name>>, entry.resourcetype = "collection"),
     resourcetype |-> entry.resourcetype]

\* The orders in which at most n different entries can stand in an answer.
Arrangements(n) ==
    UNION { {a \in [1..k -> AnswerEntries] : \A i, j \in 1..k : i # j => a[i] # a[j]} : k \in 0..n }

\* The type and the extension list a picker can be constructed with.
PickerKinds ==
    { [type |-> "any", extensions |-> <<<<".png">>>>],
      [type |-> "image", extensions |-> <<>>],
      [type |-> "image", extensions |-> <<<<".png">>>>],
      [type |-> "image", extensions |-> <<<<".PNG">>>>],
      [type |-> "image", extensions |-> <<<<".txt">>, <<".png">>>>] }

\* The messages of the errors a request can raise: the rejections of fetch in
\* the browsers, and the error makeNextcloudApiRequest throws for a
\* non-success status (main.js 297).
ErrorMessages ==
    { <<"NetworkError", " when attempting to fetch resource.">>,
      <<"Failed to fetch">>,
      <<"Cross-Origin Request Blocked: ", "CORS", " request did not succeed">>,
      <<"Network response was not ok (", "401", "): ", "Unauthorized">>,
      <<"Network response was not ok (", "404", "): ", "Not Found">> }

CallInit ==
    /\ config \in CallConfigs
    /\ skipPublicLinkConfirmation = FALSE
    /\ shares \in InitialShares
    /\ nextcloudFilePaths = <<>>
    /\ activeSource = "nextcloud"
    /\ closed = FALSE
    /\ fileInput = EmptyStr
    /\ result = EmptyResult
    /\ sourceTarget = ConstructTarget(config, <<>>, EmptyStr)
    /\ lastBrowsed = EmptyStr
    /\ loaded = FALSE
    /\ fieldValue = EmptyStr
    /\ callbackArg = None
    /\ spinners = 0
    /\ errorUI = "none"
    /\ flows = [f \in FlowIds |-> IdleFlow]
    /\ browses = [b \in BrowseIds |-> NewBrowse]
    /\ numOps = 0
    /\ posts = <<>>
    /\ last = NoEvent
    /\ thumbnailCache = <<>>
    /\ fetches = <<>>

\* browse("") on a new picker of the given type and extensions, with the
\* PROPFIND answered by the root and the given entries (main.js 614-639).
CallBrowse(children, kind) ==
    /\ last.op = "init"
    /\ Reachable(config)
    /\ LET target  == EmptyStr
           xml     == <<ResponseNode(config, RootDir)>>
                      \o [i \in 1..Len(children) |-> AnswerNode(config, children[i])]
           listing == BrowseListing(config, target, xml, kind.type, kind.extensions)
           ok      == listing.error = "none"
           new     == BrowseCommit(ok, target, listing.result, BrowseTarget)
       IN  /\ result' = new.result
           /\ sourceTarget' = new.sourceTarget
           /\ lastBrowsed' = new.lastBrowsed
           /\ loaded' = new.loaded
           /\ last' = [NoEvent EXCEPT !.op = "callBrowse", !.path = target, !.response = "ok",
                                      !.outcome = IF ok THEN "listed" ELSE "failed",
                                      !.value = <<listing.error>>,
                                      !.xml = xml, !.type = kind.type,
                                      !.extensions = kind.extensions]
    /\ UNCHANGED <<thumbnailCache, fetches, config, skipPublicLinkConfirmation, nextcloudFilePaths, shares, activeSource,
                   closed, fileInput, fieldValue, callbackArg, spinners, errorUI, flows, browses,
                   numOps, posts>>

\* handleNextcloudError(error) on a new picker (main.js 101-112).
CallHandleNextcloudError(message) ==
    /\ last.op = "init"
    /\ errorUI' = handleNextcloudError(config, message)
    /\ last' = [NoEvent EXCEPT !.op = "handleNextcloudError", !.path = message]
    /\ UNCHANGED <<thumbnailCache, fetches, config, skipPublicLinkConfirmation, nextcloudFilePaths, shares, activeSource,
                   closed, fileInput, result, sourceTarget, lastBrowsed, loaded, fieldValue,
                   callbackArg, spinners, flows, browses, numOps, posts>>

\* String.prototype.substring(start, end): arguments below 0 count as 0,
\* arguments above the length as the length, and the smaller one is the start.
SubstringRange(s, start, end) ==
    LET Clamp(n) == IF n < 0 THEN 0 ELSE IF n > Len(s) THEN Len(s) ELSE n
        lo == IF Clamp(start) <= Clamp(end) THEN Clamp(start) ELSE Clamp(end)
        hi == IF Clamp(start) <= Clamp(end) THEN Clamp(end) ELSE Clamp(start)
    IN  SubSeq(s, lo + 1, hi)

\* String.prototype.replace(sub, "") for a string sub: the first occurrence
\* of sub is removed.
ReplaceFirst(s, sub) ==
    IF sub # <<>> /\ Includes(s, sub)
    THEN LET i == CHOOSE k \in 0..(Len(s) - Len(sub)) :
                      /\ SubSeq(s, k + 1, k + Len(sub)) = sub
                      /\ \A j \in 0..(k - 1) : SubSeq(s, j + 1, j + Len(sub)) # sub
         IN  SubSeq(s, 1, i) \o SubSeq(s, i + Len(sub) + 1, Len(s))
    ELSE s

\* x.replace(/^\//, ''): drop one leading slash.
StripLeadingSlash(s) ==
    IF Len(s) > 0 /\ s[1] = "/" THEN SubSeq(s, 2, Len(s)) ELSE s

\* checkPublicLink (main.js 342-350): the path parameter of the shares query
\* for an argument that ends with "/".
CheckDirectoryFilePath(cfg, path) == CheckFilePath(cfg, SubstringRange(path, 0, -1))

\* The mimetype the sharing API reports for a directory, and for a picture.
DirectoryMime == <<"httpd/unix-directory">>
PictureMime == <<"image/png">>

\* The path of a node relative to the storage of the account.
StoragePath(cfg, node) ==
    <<"/">> \o (IF cfg.subdirectory # EmptyStr THEN cfg.subdirectory \o <<"/">> ELSE <<>>)
            \o Join(node, "/")

\* One share as the sharing API reports it in a list: the mimetype and the
\* storage path of the shared node, "/" and its name as file_target, and a
\* url element for a public link only.
ListedShare(cfg, share) ==
    [mimetype    |-> IF share.node \in ServerDirs THEN DirectoryMime ELSE PictureMime,
     file_target |-> <<"/">> \o Pop(share.node),
     path        |-> StoragePath(cfg, share.node),
     hasUrl      |-> share.shareType = ShareTypeLink]

\* The shares an account can hold: public links of a.png, of img/cat.png and
\* of the directory img, and a.png shared with a user.
HeldShares ==
    { [node |-> FileA, shareType |-> ShareTypeLink],
      [node |-> FileA, shareType |-> 0],
      [node |-> FileCat, shareType |-> ShareTypeLink],
      [node |-> ImgDir, shareType |-> ShareTypeLink] }

\* The lists of at most n shares an account can hold.
HeldLists(n) == UNION { [1..k -> HeldShares] : k \in 0..n }

\* The answer of the sharing API to GET shares?path=<filePath>&reshares=true
\* &subfiles=false: the shares of the node the path names, and all the shares
\* of the account when the path parameter is empty.
SharesAnswer(cfg, filePath, held) ==
    LET segs == Segments(DecodeURIComponent(filePath))
        list == IF filePath = EmptyStr THEN held
                ELSE SelectSeq(held, LAMBDA share : Segments(StoragePath(cfg, share.node)) = segs)
    IN  [i \in 1..Len(list) |-> ListedShare(cfg, list[i])]

\* checkPublicLink for a directory (main.js 366-378): for the body of a
\* successful answer, whether the mapping raises (an element of a file
\* without url element) and the names it returns otherwise.
checkPublicLinkDirectory(target, body) ==
    LET File(a)   == ReplaceFirst(a.file_target, <<"/">>)
        Path(a)   == StripLeadingSlash(StripTrailingSlash(ReplaceFirst(a.path, File(a))))
        kept      == SelectSeq(body, LAMBDA a : a.mimetype # DirectoryMime /\ Path(a) = target)
    IN  [raises |-> \E i \in 1..Len(body) : body[i].mimetype # DirectoryMime /\ ~body[i].hasUrl,
         names  |-> [i \in 1..Len(kept) |-> File(kept[i])]]

\* The arguments checkPublicLink is called with for a directory: the root as
\* updatePublicLinkIcons names it for a target "" (main.js 416-417), and img.
DirectoryArguments == { <<"/">>, <<"img", "/">> }

\* checkPublicLink(path) for a directory on a new picker, the account holding
\* the given shares (main.js 341-382).
CallCheckPublicLink(path, held) ==
    /\ last.op = "init"
    /\ Reachable(config)
    /\ LET body    == SharesAnswer(config, CheckDirectoryFilePath(config, path), held)
           answer  == checkPublicLinkDirectory(sourceTarget, body)
       IN  last' = [NoEvent EXCEPT !.op = "callCheck", !.path = path, !.response = "ok",
                                   !.outcome = IF answer.raises THEN "failed" ELSE "listed",
                                   !.value = IF answer.raises THEN False ELSE None,
                                   !.held = held,
                                   !.names = IF answer.raises THEN <<>> ELSE answer.names]
    /\ UNCHANGED <<thumbnailCache, fetches, config, skipPublicLinkConfirmation, nextcloudFilePaths, shares, activeSource,
                   closed, fileInput, result, sourceTarget, lastBrowsed, loaded, fieldValue,
                   callbackArg, spinners, errorUI, flows, browses, numOps, posts>>

CallNext ==
    \/ \E children \in Arrangements(MaxChildren), kind \in PickerKinds : CallBrowse(children, kind)
    \/ \E message \in ErrorMessages : CallHandleNextcloudError(message)
    \/ \E path \in DirectoryArguments, held \in HeldLists(MaxChildren) : CallCheckPublicLink(path, held)

SpecCalls == CallInit /\ [][CallNext]_vars

\* ---------------------------------------------------------------- thumbnails
\* ImageHelper.hasImageExtension for the pictures of the listings: the name
\* ends with ".png", in either case.
hasImageExtension(name) == EndsWith(ToLowerCase(name), <<".png">>)

\* The display modes: the list, and the modes that show thumbnails ("thumbs"
\* stands for "thumbs", "tiles" and "images", which getData treats alike).
DisplayModes == {"list", "thumbs"}

\* A cache that is never found to hold an entry.
CachedNever(cache, url) == FALSE

\* getData, line 684: whether the cache holds an image for a file url (the
\* images stored are data URLs, which are not empty).
Cached(cache, url) == url \in DOMAIN cache

\* The data URL convertBlobToBase64 gives for the preview of a file.
PreviewImage(name) == <<"data:">> \o name

\* getData (main.js 655-692) for the listing of the picker: for every
\* picture without cached image, in a mode that shows thumbnails,
\* fetchImageAsBase64 is called and runs to the SEARCH request of fetchFileId
\* (183, 159-160).
GetData(mode) ==
    /\ activeSource = "nextcloud"
    /\ loaded
    /\ numOps < MaxOps
    /\ numOps' = numOps + 1
    /\ LET files == GetDataFiles(result)
           need  == SelectSeq(files, LAMBDA file :
                        /\ mode = "thumbs"
                        /\ hasImageExtension(file.name)
                        /\ ~Cached(thumbnailCache, file.url))
       IN  /\ fetches' = fetches \o [i \in 1..Len(need) |->
                                        [url |-> need[i].url, name |-> need[i].name, pc |-> "search"]]
           /\ spinners' = spinners + Len(need)
           /\ last' = [NoEvent EXCEPT !.op = "getData", !.type = mode,
                                      !.names = [i \in 1..Len(need) |-> need[i].url]]
    /\ UNCHANGED <<thumbnailCache, config, skipPublicLinkConfirmation, nextcloudFilePaths, shares,
                   activeSource, closed, fileInput, result, sourceTarget, lastBrowsed, loaded,
                   fieldValue, callbackArg, errorUI, flows, browses, posts>>

\* The answer to the SEARCH of fetchFileId arrives (main.js 160-168, 183-185):
\* the spinner is hidden and the preview is requested, or the request fails
\* and fetchImageAsBase64 raises.
SearchResponse(i, ok) ==
    /\ i \in 1..Len(fetches)
    /\ fetches[i].pc = "search"
    /\ fetches' = [fetches EXCEPT ![i].pc = IF ok THEN "preview" ELSE "failed"]
    /\ spinners' = IF ok THEN 0 ELSE spinners
    /\ last' = [NoEvent EXCEPT !.op = "search", !.id = i, !.path = fetches[i].url,
                               !.response = IF ok THEN "ok" ELSE "error"]
    /\ UNCHANGED <<thumbnailCache, config, skipPublicLinkConfirmation, nextcloudFilePaths, shares,
                   activeSource, closed, fileInput, result, sourceTarget, lastBrowsed, loaded,
                   fieldValue, callbackArg, errorUI, flows, browses, numOps, posts>>

\* The answer to the preview request arrives (main.js 185-186, 685-688): the
\* image is stored in the cache under the file's url, or the request fails.
PreviewResponse(i, ok) ==
    /\ i \in 1..Len(fetches)
    /\ fetches[i].pc = "preview"
    /\ fetches' = [fetches EXCEPT ![i].pc = IF ok THEN "done" ELSE "failed"]
    /\ thumbnailCache' = IF ok
                         THEN (fetches[i].url :> PreviewImage(fetches[i].name)) @@ thumbnailCache
                         ELSE thumbnailCache
    /\ last' = [NoEvent EXCEPT !.op = "preview", !.id = i, !.path = fetches[i].url,
                               !.response = IF ok THEN "ok" ELSE "error"]
    /\ UNCHANGED <<config, skipPublicLinkConfirmation, nextcloudFilePaths, shares,
                   activeSource, closed, fileInput, result, sourceTarget, lastBrowsed, loaded,
                   fieldValue, callbackArg, spinners, errorUI, flows, browses, numOps, posts>>

\* The type and extension list of a picker of pictures.
PictureKind == [type |-> "image", extensions |-> <<<<".png">>>>]

ThumbNext ==
    \/ \E children \in Arrangements(MaxChildren) : CallBrowse(children, PictureKind)
    \/ \E mode \in DisplayModes : GetData(mode)
    \/ \E i \in 1..(MaxOps * MaxChildren), ok \in BOOLEAN : SearchResponse(i, ok)
    \/ \E i \in 1..(MaxOps * MaxChildren), ok \in BOOLEAN : PreviewResponse(i, ok)

SpecThumbs == CallInit /\ [][ThumbNext]_vars

\* ------------------------------------------------------------------ claims
\* A step in which invocation f sends its share-creation POST.
SendsCreate(f) == flows[f].pc # "create" /\ flows'[f].pc = "create"

\* u is a download URL of a public link the server holds for the file.
IsDownloadUrlOf(u, node) ==
    \E i \in 1..Len(shares[node]) :
        LET prefix == ShareUrl(shares[node][i].token) \o <<"/", "download", "/">>
        IN  /\ shares[node][i].shareType = ShareTypeLink
            /\ Len(u) > Len(prefix)
            /\ SubSeq(u, 1, Len(prefix)) = prefix

\* C1: for every path, at most one share-creation POST is ever sent, over any
\* interleaving of selection flows.
C1_AtMostOneCreatePerPath == \A p \in DOMAIN posts : posts[p] <= 1

C3_ConfirmBeforeCreate ==
    [][\A f \in FlowIds :
          /\ SendsCreate(f) =>
                \/ flows[f].pc = "dialog" /\ last'.op = "dialog" /\ last'.answer = "yes"
                \/ flows[f].pc = "check" /\ skipPublicLinkConfirmation
          /\ (flows[f].pc = "check" /\ flows'[f].pc = "dialog") => ~skipPublicLinkConfirmation
          /\ (flows[f].pc = "dialog" /\ flows'[f].pc # "dialog" /\ last'.answer \in {"no", "close"})
                => ~SendsCreate(f)]_vars

C3_Witness == last.op = "dialog" /\ last.answer = "yes" /\ last.post /\ ~skipPublicLinkConfirmation

\* C4: a step in which the user declines the dialog (No or close) changes
\* nothing but the end of that flow: no POST, no write to the map, the
\* BrowseTarget, the field, the callback and the open picker as before.
C4_DeclineChangesNothing ==
    [][\A f \in FlowIds :
          (flows[f].pc = "dialog" /\ flows'[f].pc # "dialog" /\ last'.answer \in {"no", "close"}) =>
              /\ flows'[f] = IdleFlow
              /\ UNCHANGED <<posts, shares, nextcloudFilePaths, skipPublicLinkConfirmation, result,
                             sourceTarget, lastBrowsed, loaded, fieldValue, callbackArg, closed>>]_vars

C4_Witness == last.op = "dialog" /\ last.outcome = "declined" /\ last.answer = "close"

\* C5: when link creation fails (failed request or an answer without share
\* URL) the flow ends failed with an error notification, writes no map entry
\* and passes nothing to the callback.
C5_CreateFailureAborts ==
    (last.op = "create" /\ last.response \in {"nourl", "error"}) =>
        /\ last.outcome = "failed"
        /\ last.notified = "error"
        /\ last.storedKey = None
        /\ callbackArg # Null

\* C6: no two selection flows for the same path are pending at the same time.
C6_OneFlowPerPath ==
    \A f, g \in FlowIds : (f # g /\ Pending(f) /\ Pending(g)) => flows[f].path # flows[g].path

\* C7: a listing request and a request of a selection flow are never
\* outstanding at the same time.
C7_ListingExcludesSelecting ==
    ~(/\ \E b \in BrowseIds : browses[b].pc = "propfind"
      /\ \E f \in FlowIds : flows[f].pc \in {"check", "create"})

\* C8: a step in which a browse fails leaves this.result, the nextcloud
\* source's target, LAST_BROWSED_DIRECTORY and _loaded as they were.
C8_FailedBrowseKeepsTarget ==
    [][(\E b \in BrowseIds : browses[b].pc = "propfind" /\ browses'[b].pc = "done"
                             /\ last'.outcome = "failed")
          => UNCHANGED <<result, sourceTarget, lastBrowsed, loaded>>]_vars

C8_Witness == last.op = "listing" /\ last.outcome = "failed" /\ loaded /\ last.path # sourceTarget

\* C9: after a failed browse the error UI shows one of the four categories.
C9_FailedBrowseReported ==
    (last.op = "listing" /\ last.outcome = "failed") =>
        errorUI \in {"urlNotSet", "credentialsNotSet", "corsError", "connectionError"}

\* C10: when a selection of path p resolves with a public URL u, the map
\* holds p for u, and the field and the callback got u.
C10_ResolvedMapsUrlToPath ==
    (last.op \in {"check", "create"} /\ last.outcome = "resolved" /\ last.value # Null) =>
        /\ last.value \in DOMAIN nextcloudFilePaths
        /\ nextcloudFilePaths[last.value] = last.path
        /\ fieldValue = last.value
        /\ callbackArg = last.value

\* C11: a step that calls handleFileSelection(p, u) leaves a map in which u is
\* looked up as p (by the property read, and by getData when u is a Nextcloud
\* URL) and in which every other key is as before.
C11_StoreRoundTrip ==
    [][last'.storedKey # None =>
          /\ DOMAIN nextcloudFilePaths' = DOMAIN nextcloudFilePaths \cup {last'.storedKey}
          /\ nextcloudFilePaths'[last'.storedKey] = last'.storedPath
          /\ isNextcloudUrl(config, last'.storedKey) =>
                SelectedFor(config, nextcloudFilePaths', last'.storedKey) = last'.storedPath
          /\ \A k \in DOMAIN nextcloudFilePaths \ {last'.storedKey} :
                nextcloudFilePaths'[k] = nextcloudFilePaths[k]]_vars

C11_Witness ==
    /\ last.storedKey # None /\ ~Falsy(last.storedKey) /\ ~Falsy(last.storedPath)
    /\ Cardinality(DOMAIN nextcloudFilePaths) >= 2

\* C12: no step changes the path the map holds for a URL or removes the URL.
C12_StoreEntriesStable ==
    [][\A k \in DOMAIN nextcloudFilePaths :
          k \in DOMAIN nextcloudFilePaths' /\ nextcloudFilePaths'[k] = nextcloudFilePaths[k]]_vars

\* The part of a URL after its last "/", and the part of a string before its
\* first "?".
AfterLastSlash(u) ==
    LET i == CHOOSE k \in 0..Len(u) : /\ k = 0 \/ u[k] = "/"
                                      /\ \A j \in (k + 1)..Len(u) : u[j] # "/"
    IN  SubSeq(u, i + 1, Len(u))

BeforeQuery(t) ==
    LET n == CHOOSE k \in 0..Len(t) : /\ k = Len(t) \/ t[k + 1] = "?"
                                      /\ \A j \in 1..k : t[j] # "?"
    IN  SubSeq(t, 1, n)

\* C13: a picker opened on a Nextcloud URL shows the path the map holds for
\* the URL when it holds one, and otherwise the decoded last path segment of
\* the URL without its query string ("x y.png" for .../download/x%20y.png?dl).
C13_StoredPathFirst ==
    (last.op = "open" /\ last.path # EmptyStr /\ isNextcloudUrl(config, last.path)) =>
        /\ IF last.path \in DOMAIN nextcloudFilePaths
           THEN fileInput = nextcloudFilePaths[last.path]
           ELSE fileInput = DecodeURIComponent(BeforeQuery(AfterLastSlash(last.path)))
        /\ (last.path = ExternalUrl) => (fileInput = <<"x", " ", "y.png">>)

C13_Witness ==
    /\ last.op = "open" /\ isNextcloudUrl(config, last.path)
    /\ last.path \in DOMAIN nextcloudFilePaths
    /\ fileInput = nextcloudFilePaths[last.path]
    /\ fileInput # DecodeURIComponent(BeforeQuery(AfterLastSlash(last.path)))

\* C14: a picker opened on a Nextcloud URL has the nextcloud source active;
\* its target is a directory of the server when the map holds the URL, and
\* the root otherwise.
C14_OpenTargetNavigable ==
    (last.op = "open" /\ last.path # EmptyStr /\ isNextcloudUrl(config, last.path)) =>
        /\ activeSource = "nextcloud"
        /\ IF last.path \in DOMAIN nextcloudFilePaths
           THEN ListedNode(config, sourceTarget) \in ServerDirs
           ELSE sourceTarget = EmptyStr

\* C15: when the shares query of checkPublicLink fails, checkPublicLink
\* returns false, nothing is reported or resolved, and the flow goes on as
\* for a file without link: to the dialog, or straight to the share-creation
\* POST when the preference is true.
C15_FailedCheckIsNoLink ==
    (last.op = "check" /\ last.response = "error") =>
        /\ last.value = False
        /\ last.outcome = "none" /\ last.notified = "none" /\ last.storedKey = None
        /\ last.post = skipPublicLinkConfirmation
        /\ flows[last.id].pc = IF skipPublicLinkConfirmation THEN "create" ELSE "dialog"

C15_Witness ==
    /\ last.op = "check" /\ last.response = "error" /\ last.value = False
    /\ last.link /\ last.post /\ flows[last.id].pc = "create"

\* C16: createPublicLink returns a download URL of the new link when the
\* share was created, and returns null (it does not raise) in every other
\* case: a failed request, a non-success status, an answer without url.
C16_CreateReturnsNullOnFailure ==
    (last.op = "create") =>
        IF last.response = "ok"
        THEN IsDownloadUrlOf(last.value, CreatedNode(config, last.path))
        ELSE last.value = Null

\* C17: when createPublicLink has created the link of a path and the next
\* step is an answered checkPublicLink for the same path, both return the
\* same string: the base URL of the link, "/download/" and the URL-encoded
\* last segment of the path.
C17_CheckEqualsCreate ==
    [][(/\ last.op = "create" /\ last.response = "ok"
        /\ last'.op = "check" /\ last'.response = "ok"
        /\ last'.path = last.path)
          => /\ last'.value = last.value
             /\ \E i \in 1..Len(shares[CreatedNode(config, last.path)]) :
                   last.value = ShareUrl(shares[CreatedNode(config, last.path)][i].token)
                                \o <<"/", "download", "/">>
                                \o EncodeURIComponent(Pop(CreatedNode(config, last.path)))]_vars

\* C18: an answered checkPublicLink for a file returns a download URL of a
\* public link of the file when the file has one, wherever it stands among
\* the file's shares, and null when the file has only shares with users or
\* groups (or none).
C18_OnlyLinkSharesCount ==
    (last.op = "check" /\ last.response = "ok") =>
        LET node == QueriedNode(config, last.path)
        IN  IF \E i \in 1..Len(shares[node]) : shares[node][i].shareType = ShareTypeLink
            THEN IsDownloadUrlOf(last.value, node)
            ELSE last.value = Null

C18_Witness ==
    /\ last.op = "check" /\ last.response = "ok"
    /\ Len(shares[QueriedNode(config, last.path)]) >= 2
    /\ shares[QueriedNode(config, last.path)][1] = UserShare
    /\ IsDownloadUrlOf(last.value, QueriedNode(config, last.path))

C21_NoSelfEntry ==
    (last.op = "listing" /\ last.outcome = "listed") =>
        \A i \in 1..Len(result.dirs) :
            ListedNode(config, result.dirs[i]) # ListedNode(config, last.path)

\* The configuration that differs from cfg in the subdirectory alone: set
\* when cfg has none, empty when cfg has one.
OtherSubdirectory(cfg) ==
    [cfg EXCEPT !.subdirectory = IF cfg.subdirectory = EmptyStr THEN SubDir ELSE EmptyStr]

\* C22: every href _parseWebDavResponse returns for a listing holds neither
\* the DAV root nor the account nor the subdirectory, has no trailing slash,
\* and is the href returned for the same node when the subdirectory setting
\* is the other way round.
C22_HrefRelativeToRoot ==
    (last.op = "listing" /\ last.outcome = "listed") =>
        LET dir   == ListedNode(config, last.path)
            nodes == <<dir>> \o ChildOrder(dir)
        IN  \A i \in 1..Len(nodes) :
                LET h == ParsedEntry(config, ResponseNode(config, nodes[i])).href
                    other == OtherSubdirectory(config)
                IN  /\ ~Includes(h, <<"remote.php">>)
                    /\ ~Includes(h, config.userName)
                    /\ config.subdirectory # EmptyStr => ~Includes(h, config.subdirectory)
                    /\ h = EmptyStr \/ h[Len(h)] # "/"
                    /\ h = ParsedEntry(other, ResponseNode(other, nodes[i])).href

\* The names of the entries stand in case-insensitive order.
OrderedByName(entries) ==
    \A i \in 1..(Len(entries) - 1) :
        ~LexLess(PrimaryKey(entries[i + 1].name), PrimaryKey(entries[i].name))

\* C23: after a successful listing the directories and the files that
\* getData hands to the UI are each in case-insensitive order of their names,
\* whatever the order of the entries in the answer.
C23_ListingSortedByName ==
    (last.op = "callBrowse" /\ last.outcome = "listed") =>
        /\ OrderedByName(GetDataDirs(result))
        /\ OrderedByName(GetDataFiles(result))

\* C24: handleNextcloudError renders exactly one category: unset URL when
\* the URL is empty; else unset credentials when the user name or the app
\* password is empty; else connectivity when the message mentions CORS or
\* NetworkError; else generic.  A 401 is unset credentials only when the
\* credentials are empty, and generic when all settings are set.
C24_ErrorCategoryByPriority ==
    (last.op = "handleNextcloudError") =>
        LET message   == last.path
            noUrl     == config.url = EmptyStr
            noCreds   == config.userName = EmptyStr \/ config.appPassword = EmptyStr
            mentions  == \E i \in 1..Len(message) : message[i] \in {"CORS", "NetworkError"}
            is401     == \E i \in 1..Len(message) : message[i] = "401"
        IN  /\ errorUI \in {"urlNotSet", "credentialsNotSet", "corsError", "connectionError"}
            /\ (errorUI = "urlNotSet") <=> noUrl
            /\ (errorUI = "credentialsNotSet") <=> (~noUrl /\ noCreds)
            /\ (errorUI = "corsError") <=> (~noUrl /\ ~noCreds /\ mentions)
            /\ (errorUI = "connectionError") <=> (~noUrl /\ ~noCreds /\ ~mentions)
            /\ (is401 /\ ~noUrl) => (errorUI = IF noCreds THEN "credentialsNotSet" ELSE "connectionError")

C24_Witness ==
    /\ last.op = "handleNextcloudError"
    /\ \E i \in 1..Len(last.path) : last.path[i] = "401"
    /\ Reachable(config)
    /\ errorUI = "connectionError"

\* The path under which a response node is listed: its href without the
\* trailing slash and the root prefix, URL-decoded.
ListedPath(cfg, node) ==
    DecodeURIComponent(removeDavRootDir(cfg, StripTrailingSlash(node.href)))

\* A response node whose name holds a "%" (escaped as %25 in its href).
HasPercentName(xml) == \E i \in 1..Len(xml) : Includes(xml[i].href, <<"%", "25">>)

\* C25: when a node of the answer has no resourcetype element the listing
\* still succeeds and the node is listed among the files.
C25_MissingTypeIsFile ==
    (/\ last.op = "callBrowse" /\ last.type = "any"
     /\ ~HasPercentName(last.xml)
     /\ \E i \in 1..Len(last.xml) : last.xml[i].resourcetype = "missing")
        => /\ last.outcome = "listed"
           /\ \A i \in 1..Len(last.xml) :
                 last.xml[i].resourcetype = "missing" =>
                     \E j \in 1..Len(result.files) : result.files[j] = ListedPath(config, last.xml[i])

\* The number of entries of a sequence of paths that equal p.
Occurrences(paths, p) == Cardinality({j \in 1..Len(paths) : paths[j] = p})

\* C26: for an answer whose nodes all have a resourcetype element, the
\* listing succeeds and every node after the listed directory is listed
\* once: among the directories when it is a collection, among the files when
\* it is not, and nothing else is listed (an answer with no child gives
\* empty files and directories).
C26_EntriesPartitioned ==
    (/\ last.op = "callBrowse" /\ last.type = "any"
     /\ \A i \in 1..Len(last.xml) : last.xml[i].resourcetype # "missing")
        => /\ last.outcome = "listed"
           /\ Len(result.dirs) + Len(result.files) = Len(last.xml) - 1
           /\ \A i \in 2..Len(last.xml) :
                 LET p == ListedPath(config, last.xml[i])
                 IN  IF last.xml[i].resourcetype = "collection"
                     THEN Occurrences(result.dirs, p) = 1 /\ Occurrences(result.files, p) = 0
                     ELSE Occurrences(result.dirs, p) = 0 /\ Occurrences(result.files, p) = 1

\* The set of the entries of a sequence.
EntriesOf(seq) == { seq[i] : i \in 1..Len(seq) }

\* Whether a file name ends with one of the extensions, compared without
\* regard to case on both sides.
MatchesExtension(name, extensions) ==
    \E k \in 1..Len(extensions) : EndsWith(ToLowerCase(name), ToLowerCase(extensions[k]))

\* The paths of the files the claimed filter keeps from an answer.
KeptFiles(cfg, xml, type, extensions) ==
    { ListedPath(cfg, xml[i]) : i \in
        { j \in 2..Len(xml) :
            /\ xml[j].resourcetype # "collection"
            /\ \/ type = "any"
               \/ extensions = <<>>
               \/ MatchesExtension(Pop(Split(ListedPath(cfg, xml[j]), "/")), extensions) } }

\* C27: in a listing that succeeds, the files listed are exactly the files
\* of the answer whose name ends with one of the extensions of the picker,
\* compared without regard to case on both the name and the extension, when
\* the picker restricts extensions (type not "any" and a non-empty list), and
\* all the files otherwise; the directories are all listed.
C27_ExtensionFilter ==
    (last.op = "callBrowse" /\ last.outcome = "listed")
        => /\ EntriesOf(result.files) = KeptFiles(config, last.xml, last.type, last.extensions)
           /\ EntriesOf(result.dirs)
                = { ListedPath(config, last.xml[i]) : i \in
                      { j \in 2..Len(last.xml) : last.xml[j].resourcetype = "collection" } }

\* The names of the files directly inside the directory `path` names that
\* have a public link among the shares held.
LinkedNamesIn(path, held) ==
    { Pop(held[i].node) : i \in
        { j \in 1..Len(held) :
            /\ held[j].node \in ServerFiles
            /\ held[j].shareType = ShareTypeLink
            /\ SubSeq(held[j].node, 1, Len(held[j].node) - 1) = Segments(path) } }

\* C28: checkPublicLink called with a directory path returns exactly the
\* names of the files directly inside that directory that have a public
\* link; shares of directories and of files in other directories are left out.
C28_DirectoryLinkSet ==
    (last.op = "callCheck")
        => /\ last.outcome = "listed"
           /\ EntriesOf(last.names) = LinkedNamesIn(last.path, last.held)

\* C29: the shares on the server change only by the answer to the POST of
\* createPublicLink, and then by exactly one new share, a public link (share
\* type 3) with read permission (1), of the file the selected path names
\* under the configured subdirectory; no share is removed or altered, and no
\* share with a user or a group is created.
C29_OnlyReadOnlyLinksCreated ==
    [][shares' # shares =>
        /\ last'.op = "create"
        /\ \E node \in ServerFiles :
              /\ FileUrl(config, node) = last'.path
              /\ Segments(StoragePath(config, node))
                    = Segments((IF config.subdirectory # EmptyStr
                                THEN config.subdirectory \o <<"/">> ELSE <<>>) \o last'.path)
              /\ Len(shares'[node]) = Len(shares[node]) + 1
              /\ shares' = [shares EXCEPT ![node] = Append(@, Pop(shares'[node]))]
              /\ Pop(shares'[node]).shareType = ShareTypeLink
              /\ Pop(shares'[node]).permissions = PermissionRead]_vars

\* A public link with read permission was just created for a file under a
\* configured subdirectory.
C29_Witness ==
    /\ last.op = "create" /\ last.response = "ok"
    /\ config.subdirectory # EmptyStr
    /\ \E node \in ServerFiles :
          /\ FileUrl(config, node) = last.path
          /\ shares[node] # <<>>
          /\ Pop(shares[node]).token = ToString(NumShares)
          /\ Pop(shares[node]).shareType = ShareTypeLink
          /\ Pop(shares[node]).permissions = PermissionRead

\* The requests sent and not yet answered.
RequestsInFlight ==
    Cardinality({b \in BrowseIds : browses[b].pc = "propfind"})
        + Cardinality({f \in FlowIds : flows[f].pc \in {"check", "create"}})

\* C30: a step sends at most one request, a step that sends the POST sends
\* it once, and the step in which a request fails (a rejected fetch or a
\* non-success status) sends that request no second time: the failed browse
\* is over, the failed shares query is not asked again, and the failed
\* creation ends the selection without another POST.
C30_NoRetry ==
    [][/\ RequestsInFlight' <= RequestsInFlight + 1
       /\ last'.post => posts' = (last'.path :> (PostCount(last'.path) + 1)) @@ posts
       /\ (last'.op = "listing" /\ last'.response \in {"httpError", "networkError"})
             => /\ browses'[last'.id].pc = "done"
                /\ RequestsInFlight' <= RequestsInFlight
                /\ flows' = flows /\ posts' = posts
       /\ (last'.op = "check" /\ last'.response = "error")
             => /\ flows'[last'.id].pc # "check"
                /\ \A g \in FlowIds \ {last'.id} : flows'[g] = flows[g]
                /\ browses' = browses
       /\ (last'.op = "create" /\ last'.response = "error")
             => /\ flows'[last'.id] = IdleFlow
                /\ RequestsInFlight' <= RequestsInFlight
                /\ posts' = posts /\ browses' = browses]_vars

\* A PROPFIND was rejected by the network and the browse that sent it is
\* over, with no request in flight.
C30_Witness ==
    /\ last.op = "listing" /\ last.response = "networkError"
    /\ browses[last.id].pc = "done"
    /\ RequestsInFlight = 0

C32_NoRequestWhenUnconfigured ==
    ~Reachable(config)
        => /\ RequestsInFlight = 0
           /\ posts = <<>>
           /\ (last.op \in {"browse", "goBack", "submit"} /\ activeSource = "nextcloud"
                  /\ last.outcome # "nofile")
                 => errorUI \in {"urlNotSet", "credentialsNotSet"}

\* C33: when no request that shows the spinner is awaited (no PROPFIND of a
\* browse and no POST of createPublicLink), whether the last one succeeded or
\* failed, no spinner overlay is left.
C33_SpinnerBalanced ==
    (/\ \A b \in BrowseIds : browses[b].pc # "propfind"
     /\ \A f \in FlowIds : flows[f].pc # "create")
        => spinners = 0

\* The listing browse builds from the server's answer for a target.
FetchedFor(cfg, target) ==
    BrowseResult(target,
        convertToBrowseResults(parseWebDavResponse(cfg, PropfindBody(cfg, ListedNode(cfg, target))),
                               target))

C35_LatestBrowseWins ==
    [][(/\ last.op = "listing" /\ last.outcome = "listed"
        /\ last'.op = "listing" /\ last'.outcome = "listed"
        /\ last'.id # last.id)
          => LET later == IF last'.id > last.id THEN last'.id ELSE last.id
             IN  /\ result'.target = browses[later].target
                 /\ sourceTarget' = browses[later].target
                 /\ lastBrowsed' = browses[later].target]_vars

\* C36: no step removes an entry of the correspondence store or changes an
\* entry other than the one it writes, and every invocation of _onSubmit
\* that resolves leaves its entry in the store; so the entries of two
\* selections of different files are both in the store when both have
\* resolved, in whichever order.
C36_NoStoreEntryLost ==
    [][/\ DOMAIN nextcloudFilePaths \subseteq DOMAIN nextcloudFilePaths'
       /\ \A key \in DOMAIN nextcloudFilePaths :
             key # last'.storedKey => nextcloudFilePaths'[key] = nextcloudFilePaths[key]
       /\ (last'.op \in {"check", "create"} /\ last'.outcome = "resolved")
             => /\ last'.storedKey \in DOMAIN nextcloudFilePaths'
                /\ nextcloudFilePaths'[last'.storedKey] = last'.storedPath]_vars

\* Two selections, of img/cat.png and of a.png, were awaited together, the
\* one started first resolved last, and the store holds the public link of
\* each file.
C36_Witness ==
    /\ last.op = "check" /\ last.outcome = "resolved" /\ last.id = 1
    /\ \A f \in FlowIds : flows[f].pc = "idle"
    /\ PostCount(FileUrl(config, FileA)) = 1
    /\ \E u, v \in DOMAIN nextcloudFilePaths :
          /\ IsDownloadUrlOf(u, FileA) /\ IsDownloadUrlOf(v, FileCat)
          /\ u # v /\ v = last.storedKey

\* C37: the keys of the thumbnail cache are file urls of listings, no step
\* removes a key, and a getData call starts no fetch (file-id search and
\* preview request) for a url the cache holds an entry for.
C37_ThumbnailCacheGrows ==
    [][/\ DOMAIN thumbnailCache \subseteq DOMAIN thumbnailCache'
       /\ \A url \in DOMAIN thumbnailCache' : url \in EntriesOf(result.files)
       /\ last'.op = "getData"
             => \A i \in 1..Len(last'.names) : last'.names[i] \notin DOMAIN thumbnailCache]_vars

\* getData is called in a mode that shows thumbnails when the cache holds
\* the image of a listed picture, and starts no fetch for it.
C37_Witness ==
    /\ last.op = "getData" /\ last.type = "thumbs"
    /\ \E i \in 1..Len(result.files) :
          /\ result.files[i] \in DOMAIN thumbnailCache
          /\ \A j \in 1..Len(last.names) : last.names[j] # result.files[i]

\* C38: the skipPublicLinkConfirmation preference changes only in the step
\* in which a confirmation dialog is answered Yes; No, closing the dialog and
\* a selection that shows no dialog leave it as it is; and once it is true
\* no step of a selection sets it to false.
C38_PreferenceWrittenOnYesOnly ==
    [][/\ skipPublicLinkConfirmation' # skipPublicLinkConfirmation
             => (last'.op = "dialog" /\ last'.answer = "yes")
       /\ skipPublicLinkConfirmation => skipPublicLinkConfirmation']_vars

\* C39: while the active source is not nextcloud, _onSubmit sends no
\* request, leaves the correspondence store as it is and resolves with the
\* selected path itself; browse starts no request; no request is awaited;
\* upload and createDirectory called for another source than nextcloud send
\* no request and hand over to the base picker, as canUpload does.
C39_PassThroughOffNextcloud ==
    [][/\ (activeSource # "nextcloud" /\ last'.op = "submit" /\ last'.outcome # "nofile")
             => /\ last'.outcome = "passthrough"
                /\ callbackArg' = fileInput /\ fieldValue' = fileInput /\ closed'
                /\ UNCHANGED <<flows, posts, shares, nextcloudFilePaths, spinners>>
       /\ (activeSource # "nextcloud" /\ last'.op \in {"browse", "goBack"})
             => /\ last'.outcome = "super"
                /\ \A b \in BrowseIds : browses'[b].pc # "propfind"
                /\ UNCHANGED <<spinners, result, sourceTarget, lastBrowsed, loaded>>
       /\ activeSource' # "nextcloud" => RequestsInFlight' = 0
       /\ (last'.op \in {"upload", "createDirectory"} /\ last'.path # <<"nextcloud">>)
             => (last'.response = "super" /\ last'.outcome = "super")
       /\ activeSource # "nextcloud"
             => \A type \in {"any", "image", "folder"}, allowUpload, userCan \in BOOLEAN :
                   canUpload(activeSource, type, allowUpload, userCan).delegated]_vars

\* With another source active a file was selected and submitted, and the
\* picker closed with the selected path itself.
C39_Witness ==
    /\ activeSource # "nextcloud"
    /\ last.op = "submit" /\ last.outcome = "passthrough"
    /\ closed /\ fileInput # EmptyStr /\ callbackArg = fileInput /\ fieldValue = fileInput
    /\ posts = <<>>

====
